---- MODULE Spec2Model ----
(***************************************************************************)
(* A model of the terminal text editor of src/main.rs: the Editor object,  *)
(* its methods, and the key-event loop of main().                          *)
(*                                                                         *)
(* Text is a sequence of one-character strings, one per code unit.  The    *)
(* keyboard types ASCII only, so a character is one code unit and every    *)
(* column is a character boundary.  Rows and columns are 0-based as in the *)
(* source; TLA+ sequences are 1-based, so line y of the buffer is          *)
(* buffer[y + 1].  Terminal set-up, rendering and event decoding are       *)
(* outside the model: render() reads the editor and changes nothing.       *)
(***************************************************************************)
EXTENDS Naturals, Sequences, FiniteSets

(* ------------------------------ bounds -------------------------------- *)

\* Under Spec the keyboard sends at most this many keys to the Insert-mode
\* arm of the loop.  Keys typed into the command line and into the two
\* overlays need no cap: they come from the finite sets below.
MaxKeys == 4

\* Under SpecHist the single line is typed up to this length, which is
\* more than the history holds.
MaxHistLen == 52

(* ------------------------- program constants -------------------------- *)

\* save_snapshot: "if self.undo_stack.len() > 50"
MaxUndo == 50

(* --------------------------- the keyboard ----------------------------- *)

NL == "\n"
CR == "\r"

\* Characters typed into the text in Insert mode: a plain one and an opener.
TextChars == {"a", "("}

\* Command lines typed in Command mode (the keyboard types any prefix of
\* one of them and may erase with Backspace).
CommandLines ==
    { <<"w", "q">>, <<"q", " ">> }

\* File names typed into the filename prompt.
TypedNames == { <<"g">> }

\* The path given on the command line, when one is given.
ArgName == <<"f">>

\* The texts the file at ArgName may hold at start-up.
StartTexts ==
    { <<>>, <<"a", NL>>, <<"a", CR, NL, "a">> }

\* The paths the session can read or write.
Paths == {ArgName} \cup TypedNames

(* ------------------------------ helpers ------------------------------- *)

None == <<>>
Some(v) == <<v>>
IsSome(o) == Len(o) = 1
Unwrap(o) == o[1]

Min(a, b) == IF a < b THEN a ELSE b

\* usize::saturating_sub
SaturatingSub(a, b) == IF a > b THEN a - b ELSE 0

Last(s) == s[Len(s)]
Front(s) == SubSeq(s, 1, Len(s) - 1)

\* s[0..i] and s[i..] of a string or vector
Take(s, i) == SubSeq(s, 1, i)
Drop(s, i) == SubSeq(s, i + 1, Len(s))

\* Vec::remove(i) / String::remove(i), 0-based
RemoveAt(s, i) == Take(s, i) \o Drop(s, i + 1)

\* Vec::insert(i, v) / String::insert(i, c), 0-based
InsertAt(s, i, v) == Take(s, i) \o <<v>> \o Drop(s, i)

IsPrefix(p, s) == Len(p) <= Len(s) /\ Take(s, Len(p)) = p
IsSuffix(p, s) == Len(p) <= Len(s) /\ Drop(s, Len(s) - Len(p)) = p

\* [String]::join("\n")
RECURSIVE Join(_)
Join(buf) ==
    IF Len(buf) = 0 THEN <<>>
    ELSE IF Len(buf) = 1 THEN buf[1]
    ELSE buf[1] \o <<NL>> \o Join(Tail(buf))

\* str::split_inclusive('\n'): the pieces of the text, each ending with its
\* newline, the last one possibly without.
RECURSIVE SplitInclusive(_, _)
SplitInclusive(text, piece) ==
    IF Len(text) = 0
    THEN (IF Len(piece) = 0 THEN <<>> ELSE <<piece>>)
    ELSE IF Head(text) = NL
         THEN <<Append(piece, NL)>> \o SplitInclusive(Tail(text), <<>>)
         ELSE SplitInclusive(Tail(text), Append(piece, Head(text)))

\* str::lines maps each piece: strip one trailing "\n", and only then one
\* trailing "\r".
StripLine(piece) ==
    IF Len(piece) > 0 /\ Last(piece) = NL
    THEN LET l == Front(piece)
         IN  IF Len(l) > 0 /\ Last(l) = CR THEN Front(l) ELSE l
    ELSE piece

\* str::lines().map(to_string).collect()
Lines(text) ==
    LET pieces == SplitInclusive(text, <<>>)
    IN  [i \in 1..Len(pieces) |-> StripLine(pieces[i])]

\* str::trim, with the space as the only whitespace the keyboard types
RECURSIVE TrimStart(_)
TrimStart(s) ==
    IF Len(s) > 0 /\ Head(s) = " " THEN TrimStart(Tail(s)) ELSE s

RECURSIVE TrimEnd(_)
TrimEnd(s) ==
    IF Len(s) > 0 /\ Last(s) = " " THEN TrimEnd(Front(s)) ELSE s

Trim(s) == TrimEnd(TrimStart(s))

\* String::pop
Pop(s) == IF Len(s) = 0 THEN s ELSE Front(s)

(* ------------------------- the program state -------------------------- *)

VARIABLES
    state,            \* Editor.state: the EditorState [buffer, cursor, filename, dirty]
    mode,             \* Editor.mode: "Insert" or "Command"
    command,          \* Editor.command
    undo_stack,       \* Editor.undo_stack: EditorStates, oldest first
    redo_stack,       \* Editor.redo_stack
    confirm_exit,     \* Editor.confirm_exit
    pending_save,     \* Editor.pending_save
    clipboard,        \* Editor.clipboard
    ask_filename,     \* Editor.ask_filename
    input_filename,   \* Editor.input_filename
    pc,               \* where main() is: "running" in the loop, "exited" after a
                      \* break, "failed" when an Err left main through `?`,
                      \* "panicked" when an index was out of bounds
    disk,             \* the file system: path -> Some(text), or None for no file
    saved,            \* history: the buffer as the last successful save wrote it,
                      \* or as loaded when no save has succeeded
    ev,               \* history: the last key event an arm of the loop handled
    prev,             \* history: Editor.state as it was before that key event
    trail,            \* history: the state before each edit not yet undone,
                      \* oldest first, with nothing ever evicted
    nkeys             \* history: the keys the Insert-mode arm has taken, counted
                      \* up to MaxKeys

vars == << state, mode, command, undo_stack, redo_stack, confirm_exit,
           pending_save, clipboard, ask_filename, input_filename, pc, disk,
           saved, ev, prev, trail, nkeys >>

Position(x, y) == [x |-> x, y |-> y]

\* The Editor object as one value; panic is set by a method that indexes out
\* of bounds, and the process stops there.
Ed ==
    [ state |-> state, mode |-> mode, command |-> command,
      undo_stack |-> undo_stack, redo_stack |-> redo_stack,
      confirm_exit |-> confirm_exit, pending_save |-> pending_save,
      clipboard |-> clipboard, ask_filename |-> ask_filename,
      input_filename |-> input_filename, panic |-> FALSE ]

Panic(e) == [e EXCEPT !.panic = TRUE]

(* ------------------------- the Editor's methods ----------------------- *)

\* `file` is what fs::read_to_string finds at the path: Some(text), or None
\* for a missing or unreadable file (an Err, which unwrap_or_default turns
\* into the empty text).
load_file(filename, file) ==
    IF IsSome(filename)
    THEN Lines(IF IsSome(file) THEN Unwrap(file) ELSE <<>>)
    ELSE << <<>> >>

new(filename, file) ==
    [ state |-> [ buffer |-> load_file(filename, file),
                  cursor |-> Position(0, 0),
                  filename |-> filename,
                  dirty |-> FALSE ],
      mode |-> "Insert", command |-> <<>>,
      undo_stack |-> <<>>, redo_stack |-> <<>>,
      confirm_exit |-> FALSE, pending_save |-> FALSE,
      clipboard |-> <<>>, ask_filename |-> FALSE,
      input_filename |-> <<>>, panic |-> FALSE ]

clamp_cursor(e) ==
    IF Len(e.state.buffer) = 0
    THEN [e EXCEPT !.state.cursor = Position(0, 0)]
    ELSE LET y == Min(e.state.cursor.y, SaturatingSub(Len(e.state.buffer), 1))
             x == Min(e.state.cursor.x, Len(e.state.buffer[y + 1]))
         IN  [e EXCEPT !.state.cursor = Position(x, y)]

\* Mutant: the live state is marked dirty before it is copied.
save_snapshot_dirty_first(e) ==
    LET pushed == Append(e.undo_stack, [e.state EXCEPT !.dirty = TRUE])
    IN  [e EXCEPT !.redo_stack = <<>>,
                  !.undo_stack = IF Len(pushed) > MaxUndo THEN Tail(pushed)
                                 ELSE pushed,
                  !.state.dirty = TRUE]

\* Mutant: a full history drops its newest entry, not its oldest.
save_snapshot_evicts_newest(e) ==
    LET pushed == Append(e.undo_stack, e.state)
    IN  [e EXCEPT !.redo_stack = <<>>,
                  !.undo_stack = IF Len(pushed) > MaxUndo THEN Front(pushed)
                                 ELSE pushed,
                  !.state.dirty = TRUE]

\* save_snapshot() that leaves the redo stack as it is.
save_snapshot_keeps_redo(e) ==
    LET pushed == Append(e.undo_stack, e.state)
    IN  [e EXCEPT !.undo_stack = IF Len(pushed) > MaxUndo THEN Tail(pushed)
                                 ELSE pushed,
                  !.state.dirty = TRUE]

save_snapshot(e) ==
    LET pushed == Append(e.undo_stack, e.state)
    IN  [e EXCEPT !.redo_stack = <<>>,
                  !.undo_stack = IF Len(pushed) > MaxUndo THEN Tail(pushed)
                                 ELSE pushed,
                  !.state.dirty = TRUE]

undo(e) ==
    IF Len(e.undo_stack) > 0
    THEN clamp_cursor([e EXCEPT !.redo_stack = Append(@, e.state),
                                !.state = Last(e.undo_stack),
                                !.undo_stack = Front(@)])
    ELSE e

\* matching_pair() that pairs the brackets only, not the quotes.
matching_pair_brackets_only(c) ==
    CASE c = "(" -> Some(")")
      [] c = "{" -> Some("}")
      [] c = "[" -> Some("]")
      [] OTHER -> None

matching_pair(c) ==
    CASE c = "(" -> Some(")")
      [] c = "{" -> Some("}")
      [] c = "[" -> Some("]")
      [] c \in {"\"", "'"} -> Some(c)
      [] OTHER -> None

insert(e, c) ==
    LET s == save_snapshot(e)
        x == s.state.cursor.x
        y == s.state.cursor.y
    IN  IF y >= Len(s.state.buffer) THEN Panic(s)
        ELSE LET line == s.state.buffer[y + 1]
                 pair == matching_pair(c)
             IN  IF x > Len(line) THEN Panic(s)
                 ELSE clamp_cursor(
                        [s EXCEPT
                           !.state.buffer[y + 1] =
                               IF IsSome(pair)
                               THEN InsertAt(InsertAt(line, x, c), x + 1, Unwrap(pair))
                               ELSE InsertAt(line, x, c),
                           !.state.cursor.x = x + 1])

\* delete() joining two lines but leaving the cursor at the start of the
\* joined line.
delete_forgets_column(e) ==
    IF e.state.cursor.x = 0 /\ e.state.cursor.y = 0 THEN e
    ELSE LET s == save_snapshot(e)
             x == s.state.cursor.x
             y == s.state.cursor.y
             buf == s.state.buffer
         IN  IF x > 0
             THEN IF y >= Len(buf) \/ x - 1 >= Len(buf[y + 1]) THEN Panic(s)
                  ELSE [s EXCEPT !.state.buffer[y + 1] = RemoveAt(@, x - 1),
                                 !.state.cursor.x = x - 1]
             ELSE IF y >= Len(buf) THEN Panic(s)
                  ELSE LET line == buf[y + 1]
                           removed == RemoveAt(buf, y)
                       IN  [s EXCEPT
                              !.state.buffer = [removed EXCEPT ![y] = @ \o line],
                              !.state.cursor = Position(0, y - 1)]

delete(e) ==
    IF e.state.cursor.x = 0 /\ e.state.cursor.y = 0 THEN e
    ELSE LET s == save_snapshot(e)
             x == s.state.cursor.x
             y == s.state.cursor.y
             buf == s.state.buffer
         IN  IF x > 0
             THEN IF y >= Len(buf) \/ x - 1 >= Len(buf[y + 1]) THEN Panic(s)
                  ELSE [s EXCEPT !.state.buffer[y + 1] = RemoveAt(@, x - 1),
                                 !.state.cursor.x = x - 1]
             ELSE IF y >= Len(buf) THEN Panic(s)
                  ELSE LET prev_len == Len(buf[y])
                           line == buf[y + 1]
                           removed == RemoveAt(buf, y)
                       IN  [s EXCEPT
                              !.state.buffer = [removed EXCEPT ![y] = @ \o line],
                              !.state.cursor = Position(prev_len, y - 1)]

newline(e) ==
    LET s == save_snapshot(e)
        x == s.state.cursor.x
        y == s.state.cursor.y
        buf == s.state.buffer
    IN  IF y >= Len(buf) \/ x > Len(buf[y + 1]) THEN Panic(s)
        ELSE LET rest == Drop(buf[y + 1], x)
                 kept == [buf EXCEPT ![y + 1] = Take(@, x)]
             IN  [s EXCEPT !.state.buffer = InsertAt(kept, y + 1, rest),
                           !.state.cursor = Position(0, y + 1)]

copy_selection(e) ==
    IF e.state.cursor.y >= Len(e.state.buffer) THEN Panic(e)
    ELSE [e EXCEPT !.clipboard = e.state.buffer[e.state.cursor.y + 1]]

\* paste() that takes its snapshot before it looks at the clipboard.
paste_snapshots_first(e) ==
    LET s == save_snapshot(e)
        x == s.state.cursor.x
        y == s.state.cursor.y
        buf == s.state.buffer
    IN  IF e.clipboard # <<>>
        THEN IF y >= Len(buf) \/ x > Len(buf[y + 1]) THEN Panic(s)
             ELSE [s EXCEPT
                     !.state.buffer[y + 1] = Take(@, x) \o s.clipboard \o Drop(@, x),
                     !.state.cursor.x = x + Len(s.clipboard)]
        ELSE s

paste(e) ==
    IF e.clipboard # <<>>
    THEN LET s == save_snapshot(e)
             x == s.state.cursor.x
             y == s.state.cursor.y
             buf == s.state.buffer
         IN  IF y >= Len(buf) \/ x > Len(buf[y + 1]) THEN Panic(s)
             ELSE [s EXCEPT
                     !.state.buffer[y + 1] = Take(@, x) \o s.clipboard \o Drop(@, x),
                     !.state.cursor.x = x + Len(s.clipboard)]
    ELSE e

\* `ok` is whether fs::write succeeds; on Err the `?` returns before the two
\* assignments.
\* Mutant: a successful save records the name and leaves dirty as it was.
save_to_file_keeps_dirty(e, filename, ok) ==
    IF ok THEN [e EXCEPT !.state.filename = Some(filename)] ELSE e

save_to_file(e, filename, ok) ==
    IF ok
    THEN [e EXCEPT !.state.filename = Some(filename), !.state.dirty = FALSE]
    ELSE e

\* What fs::write leaves on disk: the joined buffer on success.
fs_write(d, filename, text, ok) ==
    IF ok THEN [d EXCEPT ![filename] = Some(text)] ELSE d

\* The outcomes fs::write can have: no file can be created at the empty path.
WriteOutcomes(filename) == IF filename = <<>> THEN {FALSE} ELSE BOOLEAN

WriteResult(ok) == IF ok THEN "ok" ELSE "fail"

\* What process_command hands back: ret is "true" for Ok(true), "false" for
\* Ok(false), "err" for the Err that `?` propagates; write is what its call
\* to save_to_file did, if it made one.
Returned(e, ret, write) == [ed |-> e, ret |-> ret, write |-> write]

\* The tail of process_command() that returns to Insert mode with the command
\* text still in place.
finish_command_keeps_text(e, write) ==
    Returned([e EXCEPT !.mode = "Insert"], "false", write)

\* The statements after the match: clear the command, go back to Insert,
\* render, Ok(false).
finish_command(e, write) ==
    Returned([e EXCEPT !.command = <<>>, !.mode = "Insert"], "false", write)

command_w(e, ok) ==
    IF IsSome(e.state.filename)
    THEN finish_command(save_to_file(e, Unwrap(e.state.filename), ok),
                        WriteResult(ok))
    ELSE finish_command([e EXCEPT !.ask_filename = TRUE], "none")

\* Mutant: q quits whether or not the buffer is dirty.
command_q_always_quits(e) == Returned(e, "true", "none")

command_q(e) ==
    IF e.state.dirty
    THEN finish_command([e EXCEPT !.confirm_exit = TRUE, !.pending_save = TRUE],
                        "none")
    ELSE Returned(e, "true", "none")

\* Mutant: wq saves and falls through to the end of process_command.
command_wq_stays(e, ok) ==
    IF IsSome(e.state.filename)
    THEN finish_command(save_to_file(e, Unwrap(e.state.filename), ok),
                        WriteResult(ok))
    ELSE finish_command([e EXCEPT !.ask_filename = TRUE], "none")

command_wq(e, ok) ==
    IF IsSome(e.state.filename)
    THEN IF ok
         THEN Returned(save_to_file(e, Unwrap(e.state.filename), ok), "true", "ok")
         ELSE Returned(e, "err", "fail")
    ELSE finish_command([e EXCEPT !.ask_filename = TRUE], "none")

process_command(e, ok) ==
    LET cmd == Trim(e.command)
    IN  CASE cmd = <<"w">> -> command_w(e, ok)
          [] cmd = <<"q">> -> command_q(e)
          [] cmd = <<"w", "q">> -> command_wq(e, ok)
          [] OTHER -> finish_command(e, "none")

\* What render() paints, as far as it depends on the editor: the lines, the
\* cursor, the status line, and the three optional prompt lines.
render(e) ==
    [ lines |-> e.state.buffer,
      cursor |-> e.state.cursor,
      status |-> << e.state.dirty, e.state.filename,
                    e.state.cursor.y + 1, Len(e.state.buffer) >>,
      command_line |-> IF e.mode = "Command" THEN Some(e.command) ELSE None,
      confirm_prompt |-> e.confirm_exit,
      filename_prompt |-> IF e.ask_filename THEN Some(e.input_filename) ELSE None ]

(* ------------------------------- main --------------------------------- *)

\* Which arm of the loop body takes the next key: the two overlays come
\* first, ask_filename before confirm_exit, then the mode.
At ==
    IF ask_filename THEN "ask"
    ELSE IF confirm_exit THEN "confirm"
    ELSE IF mode = "Insert" THEN "insert"
    ELSE "command"

\* The record of a key event: the arm that took it, the key, its character,
\* what a call to save_to_file did, and the command line it dispatched.
Event(key, ch, write) ==
    [at |-> At, key |-> key, ch |-> ch, write |-> write, cmd |-> None]

\* One turn of the loop ends with the editor as e and main() at next_pc.
Turn(e, next_pc, event, next_trail) ==
    /\ state' = e.state
    /\ mode' = e.mode
    /\ command' = e.command
    /\ undo_stack' = e.undo_stack
    /\ redo_stack' = e.redo_stack
    /\ confirm_exit' = e.confirm_exit
    /\ pending_save' = e.pending_save
    /\ clipboard' = e.clipboard
    /\ ask_filename' = e.ask_filename
    /\ input_filename' = e.input_filename
    /\ pc' = IF e.panic THEN "panicked" ELSE next_pc
    /\ ev' = event
    /\ saved' = IF event.write = "ok" THEN state.buffer ELSE saved
    /\ prev' = state
    /\ trail' = next_trail
    /\ nkeys' = IF At = "insert" /\ nkeys < MaxKeys THEN nkeys + 1 ELSE nkeys

Init ==
    \E arg \in {None, Some(ArgName)} :
      \E file \in {None} \cup {Some(t) : t \in StartTexts} :
        LET e == new(arg, file)
        IN  /\ (arg = None => file = None)
            /\ state = e.state
            /\ mode = e.mode
            /\ command = e.command
            /\ undo_stack = e.undo_stack
            /\ redo_stack = e.redo_stack
            /\ confirm_exit = e.confirm_exit
            /\ pending_save = e.pending_save
            /\ clipboard = e.clipboard
            /\ ask_filename = e.ask_filename
            /\ input_filename = e.input_filename
            /\ pc = "running"
            /\ disk = [p \in Paths |-> IF p = ArgName THEN file ELSE None]
            /\ saved = e.state.buffer
            /\ ev = [ at |-> "start", key |-> "none", ch |-> "",
                      write |-> "none", cmd |-> None ]
            /\ prev = e.state
            /\ trail = <<>>
            /\ nkeys = 0

\* ---- the ask_filename overlay (main, lines 292-310)

AskChar(c) ==
    /\ pc = "running" /\ ask_filename
    /\ Turn([Ed EXCEPT !.input_filename = Append(@, c)], "running",
            Event("Char", c, "none"), trail)
    /\ UNCHANGED disk

AskBackspace ==
    /\ pc = "running" /\ ask_filename
    /\ Turn([Ed EXCEPT !.input_filename = Pop(@)], "running",
            Event("Backspace", "", "none"), trail)
    /\ UNCHANGED disk

AskEnter ==
    /\ pc = "running" /\ ask_filename
    /\ \E ok \in WriteOutcomes(input_filename) :
         /\ Turn([save_to_file(Ed, input_filename, ok) EXCEPT !.ask_filename = FALSE],
                 "running", Event("Enter", "", WriteResult(ok)), trail)
         /\ disk' = fs_write(disk, input_filename, Join(state.buffer), ok)

AskEsc ==
    /\ pc = "running" /\ ask_filename
    /\ Turn([Ed EXCEPT !.ask_filename = FALSE, !.pending_save = FALSE],
            "running", Event("Esc", "", "none"), trail)
    /\ UNCHANGED disk

\* ---- the confirm_exit overlay (main, lines 312-330)

ConfirmYes(c) ==
    /\ pc = "running" /\ ~ask_filename /\ confirm_exit
    /\ IF IsSome(state.filename)
       THEN \E ok \in WriteOutcomes(Unwrap(state.filename)) :
              /\ Turn(save_to_file(Ed, Unwrap(state.filename), ok), "exited",
                      Event("Char", c, WriteResult(ok)), trail)
              /\ disk' = fs_write(disk, Unwrap(state.filename),
                                  Join(state.buffer), ok)
       ELSE /\ Turn([Ed EXCEPT !.ask_filename = TRUE], "running",
                    Event("Char", c, "none"), trail)
            /\ UNCHANGED disk

ConfirmNo(c) ==
    /\ pc = "running" /\ ~ask_filename /\ confirm_exit
    /\ Turn(Ed, "exited", Event("Char", c, "none"), trail)
    /\ UNCHANGED disk

\* The Escape arm of the confirmation overlay, taken even while the filename
\* prompt is open.
ConfirmEsc_before_prompt ==
    /\ pc = "running" /\ confirm_exit
    /\ Turn([Ed EXCEPT !.confirm_exit = FALSE, !.pending_save = FALSE],
            "running", Event("Esc", "", "none"), trail)
    /\ UNCHANGED disk

ConfirmEsc ==
    /\ pc = "running" /\ ~ask_filename /\ confirm_exit
    /\ Turn([Ed EXCEPT !.confirm_exit = FALSE, !.pending_save = FALSE],
            "running", Event("Esc", "", "none"), trail)
    /\ UNCHANGED disk

\* ---- Insert mode (main, lines 333-380)

InInsert == pc = "running" /\ ~ask_filename /\ ~confirm_exit /\ mode = "Insert"

InsertColon ==
    /\ InInsert
    /\ Turn([Ed EXCEPT !.mode = "Command"], "running",
            Event("Char", ":", "none"), trail)
    /\ UNCHANGED disk

InsertCtrlC ==
    /\ InInsert
    /\ Turn(copy_selection(Ed), "running", Event("CtrlC", "c", "none"), trail)
    /\ UNCHANGED disk

InsertCtrlV ==
    /\ InInsert
    /\ Turn(paste(Ed), "running", Event("CtrlV", "v", "none"),
            IF clipboard # <<>> THEN Append(trail, state) ELSE trail)
    /\ UNCHANGED disk

InsertCtrlZ ==
    /\ InInsert
    /\ Turn(undo(Ed), "running", Event("CtrlZ", "z", "none"),
            IF Len(undo_stack) > 0 THEN Front(trail) ELSE trail)
    /\ UNCHANGED disk

InsertChar(c) ==
    /\ InInsert
    /\ Turn(insert(Ed, c), "running", Event("Char", c, "none"),
            Append(trail, state))
    /\ UNCHANGED disk

InsertBackspace ==
    /\ InInsert
    /\ Turn(delete(Ed), "running", Event("Backspace", "", "none"),
            IF state.cursor = Position(0, 0) THEN trail ELSE Append(trail, state))
    /\ UNCHANGED disk

InsertEnter ==
    /\ InInsert
    /\ Turn(newline(Ed), "running", Event("Enter", "", "none"),
            Append(trail, state))
    /\ UNCHANGED disk

\* Mutant: Up keeps the column whatever the length of the line above.
KeyUp_keeps_column(e) ==
    IF e.state.cursor.y > 0
    THEN [e EXCEPT !.state.cursor.y = @ - 1]
    ELSE e

KeyUp(e) ==
    IF e.state.cursor.y > 0
    THEN LET y == e.state.cursor.y - 1
         IN  IF y >= Len(e.state.buffer) THEN Panic(e)
             ELSE [e EXCEPT !.state.cursor =
                      Position(Min(e.state.cursor.x, Len(e.state.buffer[y + 1])), y)]
    ELSE e

KeyDown(e) ==
    IF e.state.cursor.y + 1 < Len(e.state.buffer)
    THEN LET y == e.state.cursor.y + 1
         IN  [e EXCEPT !.state.cursor =
                  Position(Min(e.state.cursor.x, Len(e.state.buffer[y + 1])), y)]
    ELSE e

KeyLeft(e) ==
    IF e.state.cursor.x > 0
    THEN [e EXCEPT !.state.cursor.x = @ - 1]
    ELSE IF e.state.cursor.y > 0
         THEN LET y == e.state.cursor.y - 1
              IN  IF y >= Len(e.state.buffer) THEN Panic(e)
                  ELSE [e EXCEPT !.state.cursor =
                           Position(Len(e.state.buffer[y + 1]), y)]
         ELSE e

KeyRight(e) ==
    IF e.state.cursor.y >= Len(e.state.buffer) THEN Panic(e)
    ELSE IF e.state.cursor.x < Len(e.state.buffer[e.state.cursor.y + 1])
         THEN [e EXCEPT !.state.cursor.x = @ + 1]
         ELSE IF e.state.cursor.y + 1 < Len(e.state.buffer)
              THEN [e EXCEPT !.state.cursor = Position(0, e.state.cursor.y + 1)]
              ELSE e

InsertUp ==
    /\ InInsert
    /\ Turn(KeyUp(Ed), "running", Event("Up", "", "none"), trail)
    /\ UNCHANGED disk

InsertDown ==
    /\ InInsert
    /\ Turn(KeyDown(Ed), "running", Event("Down", "", "none"), trail)
    /\ UNCHANGED disk

InsertLeft ==
    /\ InInsert
    /\ Turn(KeyLeft(Ed), "running", Event("Left", "", "none"), trail)
    /\ UNCHANGED disk

InsertRight ==
    /\ InInsert
    /\ Turn(KeyRight(Ed), "running", Event("Right", "", "none"), trail)
    /\ UNCHANGED disk

InsertEsc ==
    /\ InInsert
    /\ Turn(Ed, "exited", Event("Esc", "", "none"), trail)
    /\ UNCHANGED disk

\* ---- Command mode (main, lines 381-396)

InCommand == pc = "running" /\ ~ask_filename /\ ~confirm_exit /\ mode = "Command"

CommandChar(c) ==
    /\ InCommand
    /\ Turn([Ed EXCEPT !.command = Append(@, c)], "running",
            Event("Char", c, "none"), trail)
    /\ UNCHANGED disk

CommandBackspace ==
    /\ InCommand
    /\ Turn([Ed EXCEPT !.command = Pop(@)], "running",
            Event("Backspace", "", "none"), trail)
    /\ UNCHANGED disk

\* The file save_to_file would write for this command line, if any.
CommandTarget ==
    IF Trim(command) \in {<<"w">>, <<"w", "q">>} /\ IsSome(state.filename)
    THEN state.filename
    ELSE None

CommandEnter ==
    /\ InCommand
    /\ \E ok \in IF IsSome(CommandTarget) THEN WriteOutcomes(Unwrap(CommandTarget))
                 ELSE {TRUE} :
         LET r == process_command(Ed, ok)
         IN  /\ Turn(r.ed,
                     CASE r.ret = "true" -> "exited"
                       [] r.ret = "err" -> "failed"
                       [] OTHER -> "running",
                     [Event("Enter", "", r.write) EXCEPT !.cmd = Some(Trim(command))],
                     trail)
             /\ disk' = IF r.write = "ok"
                        THEN fs_write(disk, Unwrap(state.filename),
                                      Join(state.buffer), TRUE)
                        ELSE disk

CommandEsc ==
    /\ InCommand
    /\ Turn([Ed EXCEPT !.command = <<>>, !.mode = "Insert"], "running",
            Event("Esc", "", "none"), trail)
    /\ UNCHANGED disk

\* ---- a key no arm names (the `_ => {}` arms), or an event that is no key

OtherKey ==
    /\ pc = "running"
    /\ UNCHANGED vars

(* ----------------------- what the keyboard types ---------------------- *)

TypeName ==
    \E c \in {n[i] : n \in TypedNames, i \in 1..1} :
        /\ \E n \in TypedNames : IsPrefix(Append(input_filename, c), n)
        /\ AskChar(c)

TypeConfirmYes == \E c \in {"y", "Y"} : ConfirmYes(c)

TypeConfirmNo == \E c \in {"n", "N"} : ConfirmNo(c)

TypeText == \E c \in TextChars : InsertChar(c)

TypeCommand ==
    \E c \in {"w", "q", " "} :
        /\ \E l \in CommandLines : IsPrefix(Append(command, c), l)
        /\ CommandChar(c)

Budget == At = "insert" => nkeys < MaxKeys

Next ==
    \/ TypeName
    \/ AskBackspace
    \/ AskEnter
    \/ AskEsc
    \/ TypeConfirmYes
    \/ TypeConfirmNo
    \/ ConfirmEsc
    \/ Budget /\ InsertColon
    \/ Budget /\ InsertCtrlC
    \/ Budget /\ InsertCtrlV
    \/ Budget /\ InsertCtrlZ
    \/ Budget /\ TypeText
    \/ Budget /\ InsertBackspace
    \/ Budget /\ InsertEnter
    \/ Budget /\ InsertUp
    \/ Budget /\ InsertDown
    \/ Budget /\ InsertLeft
    \/ Budget /\ InsertRight
    \/ Budget /\ InsertEsc
    \/ TypeCommand
    \/ CommandBackspace
    \/ CommandEnter
    \/ CommandEsc
    \/ OtherKey

Spec == Init /\ [][Next]_vars

\* ---- a session that only types "a" at the end of one line and undoes

InitHist == Init /\ state.filename = None

HistType ==
    /\ Len(state.buffer[1]) < MaxHistLen
    /\ InsertChar("a")

HistUndo == InsertCtrlZ

NextHist == HistType \/ HistUndo

SpecHist == InitHist /\ [][NextHist]_vars

\* ---- a session that only types (every opener, and a letter) and moves left

PairChars == {"a", "(", "{", "[", "\"", "'"}

TypePair == \E c \in PairChars : InsertChar(c)

NextPair ==
    \/ Budget /\ TypePair
    \/ Budget /\ InsertLeft

SpecPair == Init /\ [][NextPair]_vars

(* ------------------------------ claims -------------------------------- *)

\* What the claims call the editor's fields when they compare two states.
FieldsOf(e) ==
    << e.state, e.mode, e.command, e.undo_stack, e.redo_stack, e.confirm_exit,
       e.pending_save, e.clipboard, e.ask_filename, e.input_filename >>

Fields == FieldsOf(Ed)

\* The last key was an edit that took effect: a character inserted, a line
\* split, a Backspace away from (0,0), or a paste of a non-empty clipboard.
LastWasEdit ==
    /\ pc = "running"
    /\ ev.at = "insert"
    /\ \/ ev.key = "Char" /\ ev.ch # ":"
       \/ ev.key = "Enter"
       \/ ev.key = "Backspace" /\ prev.cursor # Position(0, 0)
       \/ ev.key = "CtrlV" /\ clipboard # <<>>

\* C1. Clamp invariant: in every reachable state either the buffer is empty
\* and the cursor is (0,0), or the cursor's row is a line of the buffer and
\* its column is at most that line's length.
ClampInvariant ==
    \/ Len(state.buffer) = 0 /\ state.cursor = Position(0, 0)
    \/ /\ state.cursor.y < Len(state.buffer)
       /\ state.cursor.x <= Len(state.buffer[state.cursor.y + 1])

\* C1 witness: Up moved the cursor onto a shorter line and the column came
\* down to that line's length.
ClampWitness ==
    /\ pc = "running"
    /\ ev.key = "Up"
    /\ state.cursor.y + 1 = prev.cursor.y
    /\ state.cursor.x < prev.cursor.x
    /\ state.cursor.x = Len(state.buffer[state.cursor.y + 1])

\* C2. Undo round trip: an undo that follows at once an edit that took effect
\* puts back the state the edit started from, in all four fields; an undo
\* with an empty undo_stack changes no field of the editor.
UndoRoundTrip ==
    [][ (InInsert /\ ev'.key = "CtrlZ") =>
          /\ (LastWasEdit => state' = prev /\ pc' = "running")
          /\ (Len(undo_stack) = 0 => Fields' = Fields /\ pc' = "running") ]_vars

\* C2 witness: an undo straight after an edit has put the edit's starting
\* state back; the edited state is the only entry of redo_stack.
UndoRoundTripWitness ==
    /\ pc = "running"
    /\ ev.key = "CtrlZ"
    /\ Len(redo_stack) = 1
    /\ redo_stack[1] = prev
    /\ state # prev
    /\ state.buffer # prev.buffer

\* C3. History bound: undo_stack never holds more than 50 snapshots and is
\* always the newest end of the states edited from; a snapshot taken on a
\* full stack drops the oldest entry; each undo gives back the newest entry,
\* and an undo on an empty stack gives back nothing older.
HistoryBound ==
    /\ [](/\ Len(undo_stack) <= MaxUndo
          /\ IsSuffix(undo_stack, trail))
    /\ [][ /\ (InInsert /\ ev'.key = "Char" /\ Len(undo_stack) = MaxUndo =>
                 undo_stack' = Append(Tail(undo_stack), state))
           /\ (InInsert /\ ev'.key = "CtrlZ" /\ Len(undo_stack) > 0 =>
                 /\ state' = Last(undo_stack)
                 /\ undo_stack' = Front(undo_stack))
           /\ (InInsert /\ ev'.key = "CtrlZ" /\ Len(undo_stack) = 0 =>
                 state' = state /\ undo_stack' = undo_stack) ]_vars

\* C3 witness: after more than 50 edits, repeated undo has emptied the full
\* history and stopped at the state 50 edits back, one edit short of the start.
HistoryBoundWitness ==
    /\ ev.key = "CtrlZ"
    /\ Len(undo_stack) = 0
    /\ Len(redo_stack) = MaxUndo
    /\ Len(trail) = 1
    /\ Len(state.buffer[1]) = 1

\* C4. No out-of-bounds access: no key event indexes a line that the buffer
\* does not have.
LineIndexInBounds == pc # "panicked"

\* C5. Load fallback: started with a filename whose file is missing or
\* unreadable, the editor begins with a buffer of one empty line and the
\* cursor at (0,0), the buffer it begins with when given no filename.
LoadFallback ==
    (ev.at = "start" /\ IsSome(state.filename) /\ disk[Unwrap(state.filename)] = None)
        => /\ state.buffer = << <<>> >>
           /\ state.buffer = load_file(None, None)
           /\ state.cursor = Position(0, 0)

\* C6. No fatal failure: after a save that failed, at any of its call sites,
\* the session is still running and buffer, cursor, filename and dirty are
\* what they were.
NoFatalFailure ==
    ev.write = "fail" => pc = "running" /\ state = prev

\* C7. A failed save from the filename prompt is reported: what the user is
\* shown after Enter differs from what closing the prompt with nothing
\* attempted would show.
PromptFailureReported ==
    [][ (pc = "running" /\ ask_filename /\ ev'.key = "Enter" /\ ev'.write = "fail") =>
          render(Ed)' # render([Ed EXCEPT !.ask_filename = FALSE]) ]_vars

\* The step is Enter in Command mode dispatching the command line c.
Dispatches(c) == InCommand /\ ev'.key = "Enter" /\ Trim(command) = c

\* C8. Command q: on a clean buffer q ends the session with no overlay
\* active; on a dirty buffer it does not end it, activates confirm_exit, sets
\* pending_save and leaves buffer, cursor, filename and dirty as they were.
CommandQ ==
    [][ Dispatches(<<"q">>) =>
          IF state.dirty
          THEN /\ pc' = "running"
               /\ confirm_exit' /\ pending_save'
               /\ state' = state
          ELSE /\ pc' = "exited"
               /\ ~confirm_exit' /\ ~ask_filename' ]_vars

\* C8 witness: q was dispatched on a dirty buffer and the confirmation is up.
CommandQWitness ==
    /\ ev.at = "command" /\ ev.cmd = Some(<<"q">>)
    /\ pc = "running"
    /\ state.dirty /\ confirm_exit /\ pending_save

\* C9. Command w: with a known filename w writes the joined buffer to it and,
\* when the write succeeds, clears dirty, and the session goes on; with no
\* known filename it activates ask_filename, writes nothing, leaves buffer,
\* cursor, filename and dirty as they were, and the session goes on.
CommandW ==
    [][ Dispatches(<<"w">>) =>
          /\ pc' = "running"
          /\ IF IsSome(state.filename)
             THEN /\ ev'.write # "none"
                  /\ ~ask_filename'
                  /\ ev'.write = "ok" =>
                       /\ disk' = [disk EXCEPT ![Unwrap(state.filename)] =
                                                   Some(Join(state.buffer))]
                       /\ state' = [state EXCEPT !.dirty = FALSE]
             ELSE /\ ask_filename'
                  /\ ev'.write = "none" /\ disk' = disk
                  /\ state' = state ]_vars

\* C9 witness: w saved a dirty buffer to its known file and the session goes on.
CommandWWitness ==
    /\ ev.at = "command" /\ ev.cmd = Some(<<"w">>) /\ ev.write = "ok"
    /\ pc = "running"
    /\ prev.dirty /\ ~state.dirty
    /\ disk[Unwrap(state.filename)] = Some(Join(state.buffer))

\* C10. Command wq: with a known filename wq calls the save and the session
\* ends, the buffer written when the save succeeds; with no known filename it
\* does what w does, activating ask_filename with the session going on, and
\* the session still goes on when Enter in the prompt commits the save.
CommandWq ==
    [][ /\ Dispatches(<<"w", "q">>) =>
             IF IsSome(state.filename)
             THEN /\ ev'.write # "none"
                  /\ pc' # "running"
                  /\ ev'.write = "ok" =>
                       /\ pc' = "exited"
                       /\ disk' = [disk EXCEPT ![Unwrap(state.filename)] =
                                                   Some(Join(state.buffer))]
             ELSE /\ pc' = "running"
                  /\ ask_filename'
                  /\ Fields' = FieldsOf(command_w(Ed, TRUE).ed)
                  /\ disk' = disk
        /\ (pc = "running" /\ ask_filename /\ ev'.key = "Enter") =>
             pc' = "running" /\ ~ask_filename' ]_vars

\* C10 witness: wq was dispatched with no known filename; the prompt is up
\* and the session goes on.
CommandWqWitness ==
    /\ ev.at = "command" /\ ev.cmd = Some(<<"w", "q">>)
    /\ pc = "running"
    /\ ask_filename /\ state.filename = None

\* A key the named arm of the loop handles in this step.
Handles(at, key) == pc = "running" /\ At = at /\ ev'.at = at /\ ev'.key = key

\* C11. Confirm-exit resolution: in the confirmation overlay y or Y saves and
\* ends the session, at once when the filename is known and, when it is not,
\* as soon as the filename prompt it falls through to has committed its save;
\* n or N ends the session with the filename, the dirty flag and the disk
\* untouched; Escape closes the overlay, clears pending_save and goes on.
ConfirmExitResolution ==
    [][ /\ ( Handles("confirm", "Char") /\ ev'.ch \in {"y", "Y"} ) =>
              IF IsSome(state.filename)
              THEN /\ pc' = "exited"
                   /\ ev'.write # "none"
              ELSE /\ pc' = "running"
                   /\ ask_filename'
                   /\ confirm_exit'
        /\ ( /\ Handles("ask", "Enter")
             /\ confirm_exit
             /\ ev'.write = "ok" ) =>
              /\ disk'[input_filename] = Some(Join(state.buffer))
              /\ pc' = "exited"
        /\ ( Handles("confirm", "Char") /\ ev'.ch \in {"n", "N"} ) =>
              /\ pc' = "exited"
              /\ state' = state
              /\ disk' = disk
              /\ ev'.write = "none"
        /\ Handles("confirm", "Esc") =>
              /\ pc' = "running"
              /\ ~confirm_exit'
              /\ ~pending_save' ]_vars

\* C12. Overlay interception and priority: while the filename prompt or the
\* confirmation overlay is active no key changes the buffer, the cursor, the
\* clipboard, the undo stack, the redo stack, the mode or the command text;
\* while both are active every key is handled by the filename prompt, so the
\* confirmation overlay stays as it is and the session goes on.
OverlayInterception ==
    [][ /\ ( pc = "running" /\ (ask_filename \/ confirm_exit) ) =>
              /\ state'.buffer = state.buffer
              /\ state'.cursor = state.cursor
              /\ clipboard' = clipboard
              /\ undo_stack' = undo_stack
              /\ redo_stack' = redo_stack
              /\ mode' = mode
              /\ command' = command
        /\ ( pc = "running" /\ ask_filename /\ confirm_exit ) =>
              /\ ev'.at = "ask"
              /\ confirm_exit'
              /\ pc' = "running" ]_vars

\* Both overlays are active and the filename prompt has just taken a
\* character, leaving the text and the confirmation overlay as they were.
OverlayInterceptionWitness ==
    /\ pc = "running"
    /\ ask_filename /\ confirm_exit
    /\ ev.at = "ask" /\ ev.key = "Char"
    /\ input_filename # <<>>
    /\ state.buffer = prev.buffer

\* The last key was Enter in Insert mode and it split a line.
LastWasNewline ==
    /\ pc = "running"
    /\ ev.at = "insert"
    /\ ev.key = "Enter"

\* C13. Newline/merge symmetry: a Backspace pressed right after an Enter that
\* split a line at column x puts the buffer back as it was before the Enter
\* and the cursor back on the same row at column x.
NewlineMergeSymmetry ==
    [][ ( LastWasNewline /\ Handles("insert", "Backspace") ) =>
            /\ pc' = "running"
            /\ state'.buffer = prev.buffer
            /\ state'.cursor = prev.cursor ]_vars

\* Enter split a non-empty line away from its start, and the Backspace after
\* it has joined the two halves again: the state two snapshots back and the
\* live state have the same text and cursor.
NewlineMergeSymmetryWitness ==
    /\ pc = "running"
    /\ ev.at = "insert" /\ ev.key = "Backspace"
    /\ Len(undo_stack) >= 2
    /\ prev = Last(undo_stack)
    /\ prev.cursor.x = 0
    /\ LET before == undo_stack[Len(undo_stack) - 1]
       IN  /\ Len(prev.buffer) = Len(before.buffer) + 1
           /\ before.cursor.x > 0
           /\ before.cursor.x < Len(before.buffer[before.cursor.y + 1])
           /\ state.buffer = before.buffer
           /\ state.cursor = before.cursor

\* The closer the editor is to put after an opener.
Closer(c) ==
    CASE c = "(" -> ")"
      [] c = "{" -> "}"
      [] c = "[" -> "]"
      [] c = "\"" -> "\""
      [] c = "'" -> "'"

\* C14. Auto-pair insertion: a character typed at column x of the current
\* line goes in at x; an opener ( { [ " ' is followed at x+1 by its closer
\* (the same character for the quotes), so the line grows by 2, any other
\* character makes it grow by 1; either way the cursor ends at x+1 on the
\* same row, and the rest of the line and the other lines are unchanged.
AutoPairInsertion ==
    [][ ( /\ Handles("insert", "Char")
          /\ ev'.ch # ":"
          /\ state.cursor.y < Len(state.buffer) ) =>
            LET c == ev'.ch
                x == state.cursor.x
                y == state.cursor.y
                line == state.buffer[y + 1]
                typed == IF c \in {"(", "{", "[", "\"", "'"}
                         THEN <<c, Closer(c)>>
                         ELSE <<c>>
            IN  /\ pc' = "running"
                /\ Len(state'.buffer) = Len(state.buffer)
                /\ \A i \in 1..Len(state.buffer) :
                       i # y + 1 => state'.buffer[i] = state.buffer[i]
                /\ state'.buffer[y + 1] = Take(line, x) \o typed \o Drop(line, x)
                /\ Len(state'.buffer[y + 1]) = Len(line) + Len(typed)
                /\ state'.cursor = Position(x + 1, y) ]_vars

\* A quote was typed in front of existing text in a buffer of several lines:
\* the line now starts with the pair and the cursor sits between the two.
AutoPairInsertionWitness ==
    /\ pc = "running"
    /\ ev.at = "insert" /\ ev.key = "Char" /\ ev.ch = "'"
    /\ prev.cursor.x = 0
    /\ Len(prev.buffer) > 1
    /\ prev.buffer[prev.cursor.y + 1] # <<>>
    /\ state.buffer[state.cursor.y + 1] =
           <<"'", "'">> \o prev.buffer[prev.cursor.y + 1]
    /\ state.cursor.x = 1

\* C15. Snapshot before mutation: right after an edit that took effect (a
\* character inserted, a line split, a Backspace away from (0,0), a paste of
\* a non-empty clipboard) the redo stack is empty, the live state is dirty,
\* and the top of the undo stack is the state as it was just before the
\* edit, with the dirty flag it had then.
SnapshotBeforeMutation ==
    LastWasEdit =>
        /\ redo_stack = <<>>
        /\ state.dirty
        /\ Len(undo_stack) > 0
        /\ Last(undo_stack) = prev
        /\ Last(undo_stack).dirty = prev.dirty

\* An edit has changed the text of a state that was clean: the live state is
\* dirty, nothing can be redone, and the one snapshot is the clean state.
SnapshotBeforeMutationWitness ==
    /\ LastWasEdit
    /\ ~prev.dirty
    /\ Len(trail) = 1
    /\ Len(undo_stack) = 1
    /\ undo_stack[1] = prev
    /\ redo_stack = <<>>
    /\ state.dirty
    /\ state.buffer # prev.buffer

\* C16. Operations without effect take no snapshot: a Backspace at (0,0) and
\* a paste of an empty clipboard leave every field of the editor as it was
\* (buffer, cursor, dirty, filename, undo stack, redo stack, clipboard); a
\* copy leaves the text, the cursor, the flags and both stacks as they were
\* and, where the cursor is on a line, makes the clipboard that whole line.
NoEffectNoSnapshot ==
    [][ /\ ( Handles("insert", "Backspace") /\ state.cursor = Position(0, 0) ) =>
              /\ pc' = "running"
              /\ Fields' = Fields
        /\ ( Handles("insert", "CtrlV") /\ clipboard = <<>> ) =>
              /\ pc' = "running"
              /\ Fields' = Fields
        /\ Handles("insert", "CtrlC") =>
              /\ state' = state
              /\ undo_stack' = undo_stack
              /\ redo_stack' = redo_stack
              /\ ( state.cursor.y < Len(state.buffer) =>
                     /\ pc' = "running"
                     /\ clipboard' = state.buffer[state.cursor.y + 1] ) ]_vars

\* A Backspace at (0,0) right after an undo: the state is still the restored
\* one, clean, and the redo stack a snapshot would have emptied is still full.
NoEffectNoSnapshotWitness ==
    /\ pc = "running"
    /\ ev.at = "insert" /\ ev.key = "Backspace"
    /\ prev.cursor = Position(0, 0)
    /\ state = prev
    /\ ~state.dirty
    /\ redo_stack # <<>>
    /\ undo_stack = <<>>

\* C17. Command text confined to Command mode: in every state of a running
\* session, Insert mode has an empty command text and an active overlay has
\* Insert mode; and every key that takes a running session out of Command
\* mode, Escape or an Enter dispatching any command at all, leaves the
\* command text empty and the mode Insert.
CommandTextConfined ==
    /\ [] ( pc = "running" =>
              /\ ( mode = "Insert" => command = <<>> )
              /\ ( (ask_filename \/ confirm_exit) => mode = "Insert" ) )
    /\ [][ ( /\ pc = "running" /\ At = "command"
             /\ ev'.at = "command" /\ ev'.key \in {"Enter", "Esc"}
             /\ pc' = "running" ) =>
               /\ command' = <<>>
               /\ mode' = "Insert" ]_vars

\* Enter has dispatched w with no filename known: the filename prompt is up,
\* the mode is Insert and the command text is gone.
CommandTextConfinedWitness ==
    /\ pc = "running"
    /\ ev.at = "command" /\ ev.key = "Enter"
    /\ ev.cmd = Some(<<"w">>)
    /\ ask_filename
    /\ mode = "Insert"
    /\ command = <<>>

\* C18. Dirty flag soundness: whenever the live state is not dirty its buffer
\* is the one the last successful save wrote (or the one loaded at startup
\* when no save has succeeded), whatever edits, saves and undos came before;
\* so a session that q has ended without asking has nothing unsaved.
DirtyFlagSound ==
    /\ ( pc = "running" /\ ~state.dirty ) => state.buffer = saved
    /\ ( /\ pc = "exited"
         /\ ev.at = "command" /\ ev.cmd = Some(<<"q">>) ) => state.buffer = saved

\* C19. Filename is sticky: once the live state's filename is known it is
\* known in every later state of the session; no key, undo included, makes
\* it unknown again.
FilenameSticky ==
    [][ ( pc = "running" /\ IsSome(state.filename) ) =>
            IsSome(state'.filename) ]_vars

\* C20. pending_save tracks confirm_exit: in every state of a running session
\* the two flags are equal; q on a dirty buffer sets both, a cancellation
\* clears both, and after an Escape in the filename prompt no overlay is
\* left active.
PendingSaveTracksConfirmExit ==
    /\ pc = "running" => pending_save = confirm_exit
    /\ ( pc = "running" /\ ev.at = "ask" /\ ev.key = "Esc" ) =>
           ~ask_filename /\ ~confirm_exit

====
